---- MODULE Spec2Model ----
(***************************************************************************)
(* Vector store manager of the RAG pipeline (services/vectordb_service.py) *)
(* as a state machine.  The shared VectorDBService singleton is called     *)
(* from synchronous FastAPI handlers, which run on a thread pool, so each  *)
(* worker thread is a process whose position inside save_documents /       *)
(* delete_documents_by_source / clear_vector_store is part of the state.   *)
(* Every external call (embedding, faiss write, pickle dump, unlink) may   *)
(* raise; the handlers' except-branches turn that into a False return.     *)
(* The conversation path (ConversationAgent's five workflow nodes behind    *)
(* POST /query) reads the store through search_with_scores; it is explored  *)
(* by SpecAsk against stores the ingest path can have built.               *)
(***************************************************************************)
EXTENDS Integers, Sequences, FiniteSets, TLC

\* ------------------------------------------------------------------ bounds
MaxChunks == 3
MaxBatch == 2
MaxFaults == 1
MaxCalls == 3

\* worker threads of the handler thread pool that touch the shared service
Procs == {"t1", "t2"}
\* uploaded file names
Files == {"a.pdf", "b.pdf"}

\* ------------------------------------------------------------- data model
\* the text of chunk i of the PDF uploaded as f, a sequence of characters
\* (len(page_content) is Len): a.pdf reads x x yy x x yy ...,
\* b.pdf reads yy x yy x ... (so chunks of one file may repeat a text);
\* any other file was split around words longer than chunk_size, which leaves
\* the separator on the chunk: " x", "x ", "x x", ...
ContentAt(f, i) ==
  IF f = "a.pdf"
  THEN (IF i % 3 = 2 THEN <<"y", "y">> ELSE <<"x">>)
  ELSE IF f = "b.pdf"
  THEN (IF i % 2 = 0 THEN <<"y", "y">> ELSE <<"x">>)
  ELSE (IF i % 3 = 0 THEN <<" ", "x">> ELSE IF i % 3 = 1 THEN <<"x", " ">> ELSE <<"x", " ", "x">>)

\* a chunk as RecursiveCharacterTextSplitter.split_documents returns it: the
\* text and its own copy of the page's metadata, which has neither source_file
\* nor chunk_id yet (the absent keys read "" and <<>>); chunks of one page
\* carry equal metadata, which is left out
split_chunk(c) ==
  [page_content |-> c, source_file |-> "", chunk_id |-> <<>>]

\* chunks.index compared by text alone
chunks_index_by_content(chunks, chunk) ==
  (CHOOSE j \in 1..Len(chunks) :
     /\ chunks[j].page_content = chunk.page_content
     /\ \A h \in 1..(j - 1) : chunks[h].page_content # chunk.page_content) - 1

\* chunks.index(chunk): the zero-based position of the first element equal to
\* chunk (Document equality compares page_content and metadata)
chunks_index(chunks, chunk) ==
  (CHOOSE j \in 1..Len(chunks) :
     /\ chunks[j] = chunk
     /\ \A h \in 1..(j - 1) : chunks[h] # chunk) - 1

\* lines 73-75: the loop over the chunks from position i on; each chunk gets
\* source_file first and then the chunk_id "{filename}_{index}", kept as the
\* pair <<filename, index>>
RECURSIVE tag_chunks(_, _, _)
tag_chunks(chunks, filename, i) ==
  IF i > Len(chunks)
  THEN chunks
  ELSE LET named == [chunks EXCEPT ![i].source_file = filename]
       IN  tag_chunks([named EXCEPT ![i].chunk_id = <<filename, chunks_index(named, named[i])>>],
                      filename, i + 1)

\* the first n chunks of file f as process_and_save_vector_store hands them to
\* save_documents
Chunks(f, n) == tag_chunks([i \in 1..n |-> split_chunk(ContentAt(f, i - 1))], f, 1)

\* the chunk lists a caller may hand to save_documents for file f: the first
\* n chunks of the file, n = 0..MaxBatch
Batches(f) == {Chunks(f, n) : n \in 0..MaxBatch}

\* self.vector_store = None
NoStore == [present |-> FALSE, index |-> <<>>, docs |-> <<>>]

\* a file of the vector_store directory
Absent == [state |-> "absent", data |-> <<>>]
Written(d) == [state |-> "ok", data |-> d]
Corrupt == [state |-> "corrupt", data |-> <<>>]

\* FAISS.from_documents: embeds every document into a fresh index + docstore
from_documents(documents) ==
  [present |-> TRUE, index |-> documents, docs |-> documents]

\* merge_from that keeps only the other store's entries
merge_from_replaces(store, other) ==
  [present |-> TRUE, index |-> other.index, docs |-> other.docs]

\* FAISS.merge_from: appends the other store's vectors and docstore entries
merge_from(store, other) ==
  [present |-> TRUE, index |-> store.index \o other.index, docs |-> store.docs \o other.docs]

\* _load_existing_vector_store that takes whatever the files hold
_load_existing_vector_store_unchecked(d) ==
  IF d.faiss.state = "absent" THEN NoStore
  ELSE [present |-> TRUE, index |-> d.faiss.data, docs |-> d.pkl.data]

\* VectorDBService._load_existing_vector_store on the given directory content
_load_existing_vector_store(d) ==
  IF d.faiss.state = "absent" THEN NoStore
  ELSE IF d.faiss.state = "ok" /\ d.pkl.state = "ok"
       THEN [present |-> TRUE, index |-> d.faiss.data, docs |-> d.pkl.data]
       ELSE NoStore

\* ------------------------------------------------------------ read paths
\* first-appearance order of the source files in a docstore
RECURSIVE SourcesOf(_)
SourcesOf(docs) ==
  IF docs = <<>> THEN <<>>
  ELSE LET front == SourcesOf(SubSeq(docs, 1, Len(docs) - 1))
           f == docs[Len(docs)].source_file
       IN  IF \E i \in 1..Len(front) : front[i] = f THEN front ELSE Append(front, f)

RECURSIVE SumChars(_)
SumChars(docs) ==
  IF docs = <<>> THEN 0 ELSE Len(Head(docs).page_content) + SumChars(Tail(docs))

OfSource(docs, f) == SelectSeq(docs, LAMBDA d : d.source_file = f)

\* get_all_documents that adds every chunk's length to every source's total
get_all_documents_chars_of_all(store) ==
  IF ~store.present THEN <<>>
  ELSE LET srcs == SourcesOf(store.docs)
       IN  [i \in 1..Len(srcs) |->
              [filename |-> srcs[i],
               chunk_count |-> Len(OfSource(store.docs, srcs[i])),
               total_characters |-> SumChars(store.docs)]]

\* VectorDBService.get_all_documents
get_all_documents(store) ==
  IF ~store.present THEN <<>>
  ELSE LET srcs == SourcesOf(store.docs)
       IN  [i \in 1..Len(srcs) |->
              [filename |-> srcs[i],
               chunk_count |-> Len(OfSource(store.docs, srcs[i])),
               total_characters |-> SumChars(OfSource(store.docs, srcs[i]))]]

\* VectorDBService.get_vector_store_info
get_vector_store_info(store, d) ==
  IF ~store.present
  THEN [status |-> "empty", document_count |-> 0, total_chunks |-> 0, index_exists |-> FALSE]
  ELSE [status |-> "active",
        document_count |-> Len(SourcesOf(store.docs)),
        total_chunks |-> Len(store.docs),
        index_exists |-> d.faiss.state # "absent"]

\* ------------------------------------------------------------------ state
VARIABLES
  vector_store,     \* self.vector_store of the singleton
  disk,             \* vector_store/index.faiss and vector_store/index.pkl
  pc,               \* position of each worker thread
  documents,        \* argument of save_documents per thread
  source_filename,  \* argument of delete_documents_by_source per thread
  remaining_docs,   \* local of delete_documents_by_source per thread
  saving,           \* the store object a thread's save_local is writing
  ret,              \* return value of the thread's finished call
  pre,              \* store and disk as they were when the latest call started
  observed,         \* what a reader of this very state was answered, if one read
  faults,           \* exceptions raised so far by the embedding model and the file system
  calls,            \* mutating requests received so far
  state,            \* the ConversationState of the question being answered
  stage,            \* the workflow node the question is at
  results_with_scores, \* local of retrieve_context: what search_with_scores returned
  result,           \* the dict ConversationAgent.invoke returned
  reply,            \* what POST /query answered
  log,              \* nodes run and external capabilities called for this question
  review,           \* the CodeReviewState of the review being run
  review_stage,     \* the workflow node the review is at
  review_log        \* nodes run for this review, and whether the workflow raised

\* the variables of the conversation path
askVars == <<state, stage, results_with_scores, result, reply, log>>

\* the variables of the code review
reviewVars == <<review, review_stage, review_log>>

\* the variables of the vector store manager
storeVars == <<vector_store, disk, pc, documents, source_filename, remaining_docs,
               saving, ret, pre, observed, faults, calls>>

vars == <<vector_store, disk, pc, documents, source_filename, remaining_docs,
          saving, ret, pre, observed, faults, calls,
          state, stage, results_with_scores, result, reply, log,
          review, review_stage, review_log>>

\* a thread inside save_local holds the store object it was called on: either
\* the object self.vector_store still refers to (it sees later merges), or an
\* object that has been replaced since (frozen at its last value)
Current == [cur |-> TRUE, val |-> NoStore]
Detached(v) == [cur |-> FALSE, val |-> v]
Deref(h) == IF h.cur THEN vector_store ELSE h.val

\* self.vector_store = <new object>: every other holder keeps the old object
Rebind(p) ==
  [q \in Procs |-> IF q # p /\ saving[q].cur /\ pc[q] \in {"sd_save_pkl", "dd_save_pkl"}
                   THEN Detached(vector_store) ELSE saving[q]]

Snapshot == [store |-> vector_store, disk |-> disk, faults |-> faults]
NoSnapshot == [store |-> NoStore, disk |-> [faiss |-> Absent, pkl |-> Absent], faults |-> 0]

Unread == [read |-> FALSE, seen |-> <<>>, persisted |-> <<>>]

\* ------------------------------------------------------ conversation data
\* program constants of the conversation path
max_question_length == 10000
max_length == 5000
similarity_threshold == 20      \* 2.0; distances are counted in tenths
k == 6

\* a str whose length matters: a sequence of pieces, each a run of n
\* characters that is either all whitespace or has none at its ends
Piece(label, n) == <<[s |-> label, n |-> n, blank |-> FALSE]>>
Blank(n) == <<[s |-> " ", n |-> n, blank |-> TRUE]>>

\* len(str)
RECURSIVE len(_)
len(t) == IF t = <<>> THEN 0 ELSE Head(t).n + len(Tail(t))

RECURSIVE lstrip(_)
lstrip(t) == IF t # <<>> /\ Head(t).blank THEN lstrip(Tail(t)) ELSE t

RECURSIVE rstrip(_)
rstrip(t) ==
  IF t # <<>> /\ t[Len(t)].blank THEN rstrip(SubSeq(t, 1, Len(t) - 1)) ELSE t

\* str.strip()
strip(t) == rstrip(lstrip(t))

\* the fixed user-facing texts
Apology ==
  Piece("I apologize, but I couldn't generate a proper response. Please try asking your question again.", 94)
FailureMessage(error) ==
  Piece("I'm sorry, I'm having trouble processing your question right now. Please try again later. Error: ", 97)
    \o error
WorkflowFailureMessage ==
  Piece("I'm sorry, I'm having trouble processing your question right now. Please try again later.", 89)
NoResponseMessage == Piece("I apologize, but I couldn't generate a response.", 48)
EmptyQuestionError == Piece("Invalid question: empty or whitespace only", 42)
LongQuestionError == Piece("Question too long (max 10,000 characters)", 41)
PromptError(e) == Piece("Error enhancing prompt: ", 24) \o e
ResponseError(e) == Piece("Error generating response: ", 27) \o e
NoPromptConfig == Piece("No conversation prompt configuration available", 46)
NoneHasNoStrip == Piece("'NoneType' object has no attribute 'strip'", 42)
TransientFailure == Piece("Connection error.", 17)

\* an optional key of a dict: <<>> when the key is unset, <<value>> when set
Unset == <<>>
Set(v) == <<v>>
IsSet(field) == field # <<>>
Get(field, default) == IF field = <<>> THEN default ELSE field[1]

\* ConversationState as invoke creates it: only question and use_rag are set
initial_state(question, use_rag) ==
  [question |-> question, use_rag |-> use_rag, error |-> Unset, context |-> Unset,
   relevant_documents |-> Unset, enhanced_prompt |-> Unset, response |-> Unset]

\* state.get("error") that never sees the error
HasError_ignored(st) == FALSE

\* state.get("error"): set and not the empty string
HasError(st) == IsSet(st.error) /\ st.error[1] # <<>>

NoState == initial_state(<<>>, TRUE)
NoResult ==
  [returned |-> FALSE, success |-> FALSE, message |-> <<>>, use_rag |-> FALSE,
   context_used |-> FALSE, documents_found |-> 0, error |-> Unset]
NoReply == [via |-> "none", status |-> "none", message |-> <<>>]

\* ------------------------------------------------------------ code review
\* bound of the issues one analysis reports
MaxIssues == 3

\* parse_code_input, line 28: the longest code accepted
max_code_length == 50000

\* entries of an issue list as json.loads returns them: a dict without an
\* "error" key, a dict with an "error" value (a text, possibly ""), or
\* something that is not a dict
Issue == [is_dict |-> TRUE, has_error |-> FALSE, error |-> ""]
Failed(text) == [is_dict |-> TRUE, has_error |-> TRUE, error |-> text]
NotADict == [is_dict |-> FALSE, has_error |-> FALSE, error |-> ""]

\* n issues without an "error" key
Plain(n) == [i \in 1..n |-> Issue]

\* the lists the model may report under "issues" or "vulnerabilities"
IssueLists ==
  {Plain(n) : n \in 0..MaxIssues}
    \cup {Plain(1) \o <<Failed("unparsable line")>>, Plain(1) \o <<Failed("")>>, <<NotADict>>}

\* the requests POST /analyze may pass on
ReviewInputs ==
  {[code |-> c, language |-> l, file_type |-> t]
     : c \in {Piece("c", 1), Piece("c", max_code_length)},
       l \in {"python", "javascript"}, t \in {"py"}}
    \cup {[code |-> <<>>, language |-> "python", file_type |-> "py"],
          [code |-> Piece("c", max_code_length + 1), language |-> "python", file_type |-> "py"],
          [code |-> Piece("c", 1), language |-> "ruby", file_type |-> "py"],
          [code |-> Piece("c", 1), language |-> "javascript", file_type |-> "ts"]}

\* review_code, lines 26-31 of the router: the state handed to invoke
initial_review_state(input) ==
  [code |-> input.code, language |-> input.language, file_type |-> input.file_type,
   syntax_issues |-> Unset, security_vulnerabilities |-> Unset,
   performance_issues |-> Unset, style_violations |-> Unset,
   best_practice_violations |-> Unset, explanations |-> Unset,
   improvement_suggestions |-> Unset, learning_resources |-> Unset,
   severity_level |-> Unset, requires_human_review |-> Unset,
   analysis_complete |-> Unset]

\* no review is being run
NoReview == initial_review_state([code |-> <<>>, language |-> "", file_type |-> ""])

\* x.get("error") is truthy
error_of(x) == x.has_error /\ x.error # ""

\* len([x for x in (state.get(field) or []) if not x.get("error")])
count_valid(field) ==
  Len(SelectSeq(Get(field, <<>>), LAMBDA x : ~error_of(x)))

\* x.get raises AttributeError on an entry that is not a dict
get_raises(field) ==
  \E i \in 1..Len(Get(field, <<>>)) : ~Get(field, <<>>)[i].is_dict

\* lines 131-137
total_issues(st) ==
  count_valid(st.syntax_issues) + count_valid(st.security_vulnerabilities)
    + count_valid(st.performance_issues) + count_valid(st.style_violations)
    + count_valid(st.best_practice_violations)

\* lines 139-146 with every threshold one too high
severity_of_strict(total) ==
  IF total > 10 THEN "critical"
  ELSE IF total > 5 THEN "high"
  ELSE IF total > 2 THEN "medium"
  ELSE "low"

\* lines 139-146
severity_of(total) ==
  IF total >= 10 THEN "critical"
  ELSE IF total >= 5 THEN "high"
  ELSE IF total >= 2 THEN "medium"
  ELSE "low"

\* the conditional edge after best_practices
route_by_severity(st) ==
  LET severity == Get(st.severity_level, "low")
  IN  IF severity = "critical" THEN "human_escalation"
      ELSE IF severity = "high" THEN "detailed_analysis"
      ELSE "educational_content"


Init ==
  /\ disk = [faiss |-> Absent, pkl |-> Absent]
  /\ vector_store = _load_existing_vector_store(disk)
  /\ pc = [p \in Procs |-> "idle"]
  /\ documents = [p \in Procs |-> <<>>]
  /\ source_filename = [p \in Procs |-> "a.pdf"]
  /\ remaining_docs = [p \in Procs |-> <<>>]
  /\ saving = [p \in Procs |-> Current]
  /\ ret = [p \in Procs |-> "none"]
  /\ pre = NoSnapshot
  /\ observed = Unread
  /\ faults = 0
  /\ calls = 0
  /\ state = NoState
  /\ stage = "idle"
  /\ results_with_scores = <<>>
  /\ result = NoResult
  /\ reply = NoReply
  /\ log = <<>>
  /\ review = NoReview
  /\ review_stage = "idle"
  /\ review_log = <<>>

InSave == {"sd_check", "sd_create", "sd_merge", "sd_save", "sd_save_pkl"}
InDelete == {"dd_scan", "dd_rebuild", "dd_save", "dd_save_pkl", "cv_unlink", "cv_clear"}
Done == {"sd_done", "dd_done"}

\* `return value` out of a handler: the thread is done, locals are dead
Return(p, value) ==
  /\ pc' = [pc EXCEPT ![p] = IF pc[p] \in InSave THEN "sd_done" ELSE "dd_done"]
  /\ ret' = [ret EXCEPT ![p] = value]
  /\ remaining_docs' = [remaining_docs EXCEPT ![p] = <<>>]
  /\ observed' = Unread

\* an external call raised; the handler's except-branch logs and returns False
Raise(p) ==
  /\ faults < MaxFaults
  /\ faults' = faults + 1
  /\ Return(p, "false")

\* the thread moves on; whatever a reader was answered before is history
Goto(p, label) ==
  /\ pc' = [pc EXCEPT ![p] = label]
  /\ observed' = Unread
  /\ UNCHANGED <<ret, remaining_docs>>

\* chunks other threads are about to insert (keeps the store within MaxChunks)
RECURSIVE Pending(_)
Pending(S) ==
  IF S = {} THEN 0
  ELSE LET q == CHOOSE x \in S : TRUE
       IN  (IF pc[q] \in {"sd_check", "sd_create", "sd_merge"} THEN Len(documents[q]) ELSE 0)
           + Pending(S \ {q})

\* ------------------------------------------------------- save_documents
\* a handler thread enters save_documents(docs)
CallSave(p) ==
  /\ pc[p] = "idle"
  /\ calls < MaxCalls
  /\ calls' = calls + 1
  /\ \E f \in Files : \E docs \in Batches(f) :
       /\ Len(vector_store.docs) + Len(docs) + Pending(Procs \ {p}) <= MaxChunks
       /\ documents' = [documents EXCEPT ![p] = docs]
  /\ pre' = Snapshot
  /\ Goto(p, "sd_check")
  /\ UNCHANGED <<vector_store, disk, source_filename, saving, faults>>
  /\ UNCHANGED askVars
  /\ UNCHANGED reviewVars

\* sd_check without the `if not documents` early return
sd_check_no_empty_check(p) ==
  /\ pc[p] = "sd_check"
  /\ IF ~vector_store.present THEN Goto(p, "sd_create") ELSE Goto(p, "sd_merge")
  /\ UNCHANGED <<vector_store, disk, documents, source_filename, saving, pre, faults, calls>>
  /\ UNCHANGED askVars
  /\ UNCHANGED reviewVars

\* lines 36-40: `if not documents` and `if self.vector_store is None`
sd_check(p) ==
  /\ pc[p] = "sd_check"
  /\ IF documents[p] = <<>> THEN Return(p, "false")
     ELSE IF ~vector_store.present THEN Goto(p, "sd_create")
     ELSE Goto(p, "sd_merge")
  /\ UNCHANGED <<vector_store, disk, documents, source_filename, saving, pre, faults, calls>>
  /\ UNCHANGED askVars
  /\ UNCHANGED reviewVars

\* line 42: self.vector_store = FAISS.from_documents(documents, ...)
sd_create(p) ==
  /\ pc[p] = "sd_create"
  /\ \/ /\ Raise(p)                           \* embedding raised
        /\ UNCHANGED <<vector_store, saving>>
     \/ /\ vector_store' = from_documents(documents[p])
        /\ saving' = Rebind(p)
        /\ Goto(p, "sd_save")
        /\ UNCHANGED faults
  /\ UNCHANGED <<disk, documents, source_filename, pre, calls>>
  /\ UNCHANGED askVars
  /\ UNCHANGED reviewVars

\* lines 46-47: new store from the documents, merged into self.vector_store
sd_merge(p) ==
  /\ pc[p] = "sd_merge"
  /\ \/ /\ Raise(p)                           \* embedding raised
        /\ UNCHANGED vector_store
     \/ /\ UNCHANGED faults
        /\ IF ~vector_store.present
           THEN /\ Return(p, "false")         \* None has no merge_from
                /\ UNCHANGED vector_store
           ELSE /\ vector_store' = merge_from(vector_store, from_documents(documents[p]))
                /\ Goto(p, "sd_save")
  /\ UNCHANGED <<disk, documents, source_filename, saving, pre, calls>>
  /\ UNCHANGED askVars
  /\ UNCHANGED reviewVars

\* save_local, first half: faiss.write_index(self.index, index.faiss)
write_index(p, next) ==
  IF ~vector_store.present
  THEN /\ Return(p, "false")                  \* None has no save_local
       /\ UNCHANGED <<disk, saving, faults>>
  ELSE \/ /\ Raise(p)                         \* the write raised
          /\ \/ UNCHANGED disk
             \/ disk' = [disk EXCEPT !.faiss = Corrupt]
          /\ UNCHANGED saving
       \/ /\ disk' = [disk EXCEPT !.faiss = Written(vector_store.index)]
          /\ saving' = [saving EXCEPT ![p] = Current]
          /\ Goto(p, next)
          /\ UNCHANGED faults

\* pickle_dump that reports success without writing index.pkl
pickle_dump_skipped(p) ==
  /\ Return(p, "true")
  /\ UNCHANGED <<disk, faults>>

\* save_local, second half: pickle.dump((docstore, index_to_docstore_id), index.pkl)
pickle_dump(p) ==
  \/ /\ Raise(p)                              \* open or dump raised
     /\ \/ UNCHANGED disk
        \/ disk' = [disk EXCEPT !.pkl = Corrupt]
  \/ /\ disk' = [disk EXCEPT !.pkl = Written(Deref(saving[p]).docs)]
     /\ Return(p, "true")
     /\ UNCHANGED faults

\* line 51: self.vector_store.save_local(...)
sd_save(p) ==
  /\ pc[p] = "sd_save"
  /\ write_index(p, "sd_save_pkl")
  /\ UNCHANGED <<vector_store, documents, source_filename, pre, calls>>
  /\ UNCHANGED askVars
  /\ UNCHANGED reviewVars

\* lines 51-53: rest of save_local, then return True
sd_save_pkl(p) ==
  /\ pc[p] = "sd_save_pkl"
  /\ pickle_dump(p)
  /\ UNCHANGED <<vector_store, documents, source_filename, saving, pre, calls>>
  /\ UNCHANGED askVars
  /\ UNCHANGED reviewVars

\* --------------------------------------------- delete_documents_by_source
CallDelete(p) ==
  /\ pc[p] = "idle"
  /\ calls < MaxCalls
  /\ calls' = calls + 1
  /\ \E f \in Files : source_filename' = [source_filename EXCEPT ![p] = f]
  /\ pre' = Snapshot
  /\ Goto(p, "dd_scan")
  /\ UNCHANGED <<vector_store, disk, documents, saving, faults>>
  /\ UNCHANGED askVars
  /\ UNCHANGED reviewVars

\* line 139 losing the last document that stays
remaining_without_last(docs, f) ==
  LET kept == SelectSeq(docs, LAMBDA d : d.source_file # f)
  IN  SubSeq(kept, 1, Len(kept) - 1)

\* line 139 keeping the documents of the named source
remaining_inverted(docs, f) == SelectSeq(docs, LAMBDA d : d.source_file = f)

\* line 139: the documents that stay
remaining(docs, f) == SelectSeq(docs, LAMBDA d : d.source_file # f)

\* dd_scan without the `deleted_count == 0` early return
dd_scan_no_miss_check(p) ==
  /\ pc[p] = "dd_scan"
  /\ IF ~vector_store.present THEN Return(p, "false")
     ELSE LET rem == SelectSeq(vector_store.docs, LAMBDA d : d.source_file # source_filename[p])
          IN  IF rem = <<>> THEN Goto(p, "cv_unlink")
              ELSE /\ pc' = [pc EXCEPT ![p] = "dd_rebuild"]
                   /\ remaining_docs' = [remaining_docs EXCEPT ![p] = rem]
                   /\ observed' = Unread
                   /\ UNCHANGED ret
  /\ UNCHANGED <<vector_store, disk, documents, source_filename, saving, pre, faults, calls>>
  /\ UNCHANGED askVars
  /\ UNCHANGED reviewVars

\* lines 129-151: None check, scan of the docstore, the two early exits
dd_scan(p) ==
  /\ pc[p] = "dd_scan"
  /\ IF ~vector_store.present THEN Return(p, "false")
     ELSE LET rem == remaining(vector_store.docs, source_filename[p])
              deleted_count == Len(vector_store.docs) - Len(rem)
          IN  IF deleted_count = 0 THEN Return(p, "false")
              ELSE IF rem = <<>> THEN Goto(p, "cv_unlink")
              ELSE /\ pc' = [pc EXCEPT ![p] = "dd_rebuild"]
                   /\ remaining_docs' = [remaining_docs EXCEPT ![p] = rem]
                   /\ observed' = Unread
                   /\ UNCHANGED ret
  /\ UNCHANGED <<vector_store, disk, documents, source_filename, saving, pre, faults, calls>>
  /\ UNCHANGED askVars
  /\ UNCHANGED reviewVars

\* line 155: self.vector_store = FAISS.from_documents(remaining_docs, ...)
dd_rebuild(p) ==
  /\ pc[p] = "dd_rebuild"
  /\ \/ /\ Raise(p)                           \* embedding raised
        /\ UNCHANGED <<vector_store, saving>>
     \/ /\ vector_store' = from_documents(remaining_docs[p])
        /\ saving' = Rebind(p)
        /\ Goto(p, "dd_save")
        /\ UNCHANGED faults
  /\ UNCHANGED <<disk, documents, source_filename, pre, calls>>
  /\ UNCHANGED askVars
  /\ UNCHANGED reviewVars

\* line 158: self.vector_store.save_local(...)
dd_save(p) ==
  /\ pc[p] = "dd_save"
  /\ write_index(p, "dd_save_pkl")
  /\ UNCHANGED <<vector_store, documents, source_filename, pre, calls>>
  /\ UNCHANGED askVars
  /\ UNCHANGED reviewVars

\* lines 158-160: rest of save_local, then return True
dd_save_pkl(p) ==
  /\ pc[p] = "dd_save_pkl"
  /\ pickle_dump(p)
  /\ UNCHANGED <<vector_store, documents, source_filename, saving, pre, calls>>
  /\ UNCHANGED askVars
  /\ UNCHANGED reviewVars

\* ----------------------------------------------------- clear_vector_store
FileNames == {"faiss", "pkl"}
Existing(d) == {n \in FileNames : d[n].state # "absent"}
Unlinked(d, gone) == [n \in FileNames |-> IF n \in gone THEN Absent ELSE d[n]]

\* lines 200-202: unlink every file of the directory, in glob order
cv_unlink(p) ==
  /\ pc[p] = "cv_unlink"
  /\ \/ /\ disk' = Unlinked(disk, FileNames)
        /\ Goto(p, "cv_clear")
        /\ UNCHANGED faults
     \/ \E bad \in Existing(disk) : \E gone \in SUBSET (Existing(disk) \ {bad}) :
          /\ disk' = Unlinked(disk, gone)     \* unlink(bad) raised
          /\ Raise(p)
  /\ UNCHANGED <<vector_store, documents, source_filename, saving, pre, calls>>
  /\ UNCHANGED askVars
  /\ UNCHANGED reviewVars

\* cv_clear that forgets `self.vector_store = None`
cv_clear_keeps_store(p) ==
  /\ pc[p] = "cv_clear"
  /\ Return(p, "true")
  /\ UNCHANGED <<vector_store, saving, disk, documents, source_filename, pre, faults, calls>>
  /\ UNCHANGED askVars
  /\ UNCHANGED reviewVars

\* lines 204-206: self.vector_store = None; return True
cv_clear(p) ==
  /\ pc[p] = "cv_clear"
  /\ vector_store' = NoStore
  /\ saving' = Rebind(p)
  /\ Return(p, "true")
  /\ UNCHANGED <<disk, documents, source_filename, pre, faults, calls>>
  /\ UNCHANGED askVars
  /\ UNCHANGED reviewVars

\* ------------------------------------------------------------ environment
\* the handler has answered; the thread goes back to the pool
Finish(p) ==
  /\ pc[p] \in Done
  /\ pc' = [pc EXCEPT ![p] = "idle"]
  /\ observed' = Unread
  /\ ret' = [ret EXCEPT ![p] = "none"]
  /\ documents' = [documents EXCEPT ![p] = <<>>]
  /\ source_filename' = [source_filename EXCEPT ![p] = "a.pdf"]
  /\ saving' = [saving EXCEPT ![p] = Current]
  /\ pre' = NoSnapshot
  /\ UNCHANGED <<vector_store, disk, remaining_docs, faults, calls>>
  /\ UNCHANGED askVars
  /\ UNCHANGED reviewVars

\* GET /documents while writers may be anywhere: get_all_documents()
ListDocuments ==
  /\ ~observed.read
  /\ observed' = [read |-> TRUE,
                  seen |-> get_all_documents(vector_store),
                  persisted |-> get_all_documents(_load_existing_vector_store(disk))]
  /\ UNCHANGED <<vector_store, disk, pc, documents, source_filename, remaining_docs,
                 saving, ret, pre, faults, calls>>
  /\ UNCHANGED askVars
  /\ UNCHANGED reviewVars

\* process restart between requests: VectorDBService.__init__ on the same directory
Restart ==
  /\ \A p \in Procs : pc[p] = "idle"
  /\ vector_store' = _load_existing_vector_store(disk)
  /\ observed' = Unread
  /\ UNCHANGED <<disk, pc, documents, source_filename, remaining_docs, saving, ret, pre, faults, calls>>
  /\ UNCHANGED askVars
  /\ UNCHANGED reviewVars

\* ---------------------------------------------------------------- search
\* bound of the stores a question is asked against
MaxStored == 7

\* distances (in tenths) the index may report
Scores == {5, 19, 20, 21}

\* the non-decreasing score sequences of length m with every score >= lo
RECURSIVE AscendingScores(_, _)
AscendingScores(m, lo) ==
  IF m = 0 THEN {<<>>}
  ELSE UNION {{<<sc>> \o rest : rest \in AscendingScores(m - 1, sc)}
                : sc \in {x \in Scores : x >= lo}}

\* FAISS.similarity_search_with_score(query, k=n): the min(n, stored) nearest
\* chunks as (doc, score) tuples, nearest first; which chunks are nearest and
\* how far they are is up to the embedding model
Hits(store, n) ==
  LET docs == store.docs
      m == IF Len(docs) < n THEN Len(docs) ELSE n
  IN  IF docs = <<>> THEN {<<>>}
      ELSE {[i \in 1..m |-> <<docs[((first + i - 2) % Len(docs)) + 1], scores[i]>>]
              : first \in 1..Len(docs), scores \in AscendingScores(m, 0)}

\* search_with_scores that lets the exception of the index escape
search_with_scores_no_except(store, fault, hits) ==
  IF ~store.present THEN [raises |-> FALSE, value |-> <<>>]
  ELSE IF fault THEN [raises |-> TRUE, value |-> <<>>]
  ELSE [raises |-> FALSE, value |-> hits]

\* VectorDBService.search_with_scores: what the caller gets when the store is
\* as given, the embedding model or the index raises (fault) or answers hits
search_with_scores(store, fault, hits) ==
  IF ~store.present THEN [raises |-> FALSE, value |-> <<>>]
  ELSE IF fault THEN [raises |-> FALSE, value |-> <<>>]
  ELSE [raises |-> FALSE, value |-> hits]

\* line 65 with <= in place of <
relevant_docs_inclusive(results) ==
  LET kept == SelectSeq(results, LAMBDA r : r[2] <= similarity_threshold)
  IN  [i \in 1..Len(kept) |-> kept[i][1]]

\* line 65: [doc for doc, score in results_with_scores if score < similarity_threshold]
relevant_docs(results) ==
  LET kept == SelectSeq(results, LAMBDA r : r[2] < similarity_threshold)
  IN  [i \in 1..Len(kept) |-> kept[i][1]]

\* str(i) for the positions a context can have
Digits == <<"1", "2", "3", "4", "5", "6", "7", "8", "9">>

RECURSIVE lstrip_chars(_)
lstrip_chars(c) == IF c # <<>> /\ Head(c) = " " THEN lstrip_chars(Tail(c)) ELSE c

RECURSIVE rstrip_chars(_)
rstrip_chars(c) ==
  IF c # <<>> /\ c[Len(c)] = " " THEN rstrip_chars(SubSeq(c, 1, Len(c) - 1)) ELSE c

\* doc.page_content.strip()
strip_chars(c) == rstrip_chars(lstrip_chars(c))

\* context_part that leaves the position out of the header
context_part_no_number(i, doc) ==
  <<"[Document ", " - ", doc.source_file, "]", "\n">> \o strip_chars(doc.page_content)

\* line 161: f"[Document {i} - {source_file}]\n{chunk_content}"
context_part(i, doc) ==
  <<"[Document ", Digits[i], " - ", doc.source_file, "]", "\n">> \o strip_chars(doc.page_content)

\* "\n\n".join(context_parts[1..n])
RECURSIVE join_parts(_, _)
join_parts(docs, n) ==
  IF n = 0 THEN <<>>
  ELSE IF n = 1 THEN context_part(1, docs[1])
  ELSE join_parts(docs, n - 1) \o <<"\n", "\n">> \o context_part(n, docs[n])

\* ConversationAgent._create_context_from_documents
_create_context_from_documents(docs) == join_parts(docs, Len(docs))

\* ----------------------------------------------------- conversation path
\* questions a caller may send: empty, blank, short, padded, and at the limits
Questions ==
  {<<>>, Blank(3), Piece("q", 12), Blank(1) \o Piece("q", 12) \o Blank(2),
   Piece("q", max_length), Piece("q", max_length + 1),
   Piece("q", max_question_length), Piece("q", max_question_length + 1)}

\* texts the language model may answer with
LLMTexts ==
  {<<>>, Blank(2), Piece("answer", 40), Blank(1) \o Piece("answer", 40) \o Blank(1),
   Piece("answer", max_length), Piece("answer", max_length + 1)}

\* what model.ainvoke may return: a str, a message object with .content (a
\* str or None), None, or some other object; for the last two text is what
\* str(response) gives
LLMOutputs ==
  {[kind |-> "str", none |-> FALSE, text |-> t] : t \in LLMTexts}
    \cup {[kind |-> "message", none |-> FALSE, text |-> t] : t \in LLMTexts}
    \cup {[kind |-> "message", none |-> TRUE, text |-> <<>>],
          [kind |-> "None", none |-> FALSE, text |-> Piece("None", 4)],
          [kind |-> "other", none |-> FALSE, text |-> Piece("repr", 30)]}

\* what the model handed back, for the record of the request
Returned(out) ==
  IF out.kind = "None" THEN "llm_returned_none"
  ELSE IF out.none THEN "llm_content_none"
  ELSE IF out.text = <<>> THEN "llm_returned_empty"
  ELSE IF strip(out.text) = <<>> THEN "llm_returned_blank"
  ELSE "llm_returned_text"

\* invoke, lines 213-216: the request enters with a fresh ConversationState
Enter(question, use_rag, via) ==
  /\ stage = "idle"
  /\ state' = initial_state(question, use_rag)
  /\ reply' = [via |-> via, status |-> "pending", message |-> <<>>]
  /\ stage' = "build_agent"
  /\ results_with_scores' = <<>>
  /\ result' = NoResult
  /\ log' = <<>>
  /\ UNCHANGED storeVars
  /\ UNCHANGED reviewVars

\* POST /query: the body passed ChatRequest, use_rag is always True
create_chat ==
  \E question \in Questions :
    /\ len(question) >= 1 /\ len(question) <= max_length
    /\ Enter(question, TRUE, "http")

\* ConversationService.process_question called by any other in-process caller
process_question ==
  \E question \in Questions, use_rag \in BOOLEAN : Enter(question, use_rag, "direct")

\* invoke, lines 219-220 and 238-250: compile the graph and start it; if the
\* graph library raises, the except-branch answers with the fixed failure dict
build_agent ==
  /\ stage = "build_agent"
  /\ \/ /\ stage' = "parse_input"
        /\ UNCHANGED result
     \/ /\ stage' = "respond"
        /\ result' = [returned |-> TRUE, success |-> FALSE, message |-> WorkflowFailureMessage,
                      use_rag |-> state.use_rag, context_used |-> FALSE,
                      documents_found |-> 0, error |-> Set(TransientFailure)]
  /\ UNCHANGED <<state, results_with_scores, reply, log>>
  /\ UNCHANGED storeVars
  /\ UNCHANGED reviewVars

\* parse_input without the length limit of line 33
parse_question_input_no_limit ==
  /\ stage = "parse_input"
  /\ LET question == state.question
     IN  state' = IF question = <<>> \/ len(strip(question)) = 0
                  THEN [state EXCEPT !.error = Set(EmptyQuestionError)]
                  ELSE state
  /\ stage' = "retrieve_context"
  /\ log' = Append(log, "parse_input")
  /\ UNCHANGED <<results_with_scores, result, reply>>
  /\ UNCHANGED storeVars
  /\ UNCHANGED reviewVars

\* node parse_input
parse_question_input ==
  /\ stage = "parse_input"
  /\ LET question == state.question
     IN  state' = IF question = <<>> \/ len(strip(question)) = 0
                  THEN [state EXCEPT !.error = Set(EmptyQuestionError)]
                  ELSE IF len(question) > max_question_length
                  THEN [state EXCEPT !.error = Set(LongQuestionError)]
                  ELSE state
  /\ stage' = "retrieve_context"
  /\ log' = Append(log, "parse_input")
  /\ UNCHANGED <<results_with_scores, result, reply>>
  /\ UNCHANGED storeVars
  /\ UNCHANGED reviewVars

\* node retrieve_context
retrieve_context ==
  /\ stage = "retrieve_context"
  /\ stage' = "enhance_prompt"
  /\ IF HasError(state)
     THEN /\ state' = state
          /\ results_with_scores' = <<>>
          /\ log' = Append(log, "retrieve_context")
     ELSE IF ~state.use_rag
     THEN /\ state' = [state EXCEPT !.context = Set(<<>>)]
          /\ results_with_scores' = <<>>
          /\ log' = Append(log, "retrieve_context")
     ELSE \E fault \in BOOLEAN : \E hits \in Hits(vector_store, k) :
            LET found == search_with_scores(vector_store, fault, hits)
                docs == relevant_docs(found.value)
                events == <<"retrieve_context", "search">>
                            \o (IF fault /\ vector_store.present THEN <<"search_failed">> ELSE <<>>)
            IN  IF found.raises
                THEN /\ state' = [state EXCEPT !.context = Set(<<>>)]
                     /\ results_with_scores' = <<>>
                     /\ log' = log \o events \o <<"search_raised">>
                ELSE /\ state' = IF docs # <<>>
                                 THEN [state EXCEPT !.relevant_documents = Set(docs),
                                                    !.context = Set(_create_context_from_documents(docs))]
                                 ELSE [state EXCEPT !.context = Set(<<>>)]
                     /\ results_with_scores' = found.value
                     /\ log' = log \o events
  /\ UNCHANGED <<result, reply>>
  /\ UNCHANGED storeVars
  /\ UNCHANGED reviewVars

\* PromptService.get_conversation_prompt: the template with question and
\* context put in, or AttributeError when no configuration was loaded
get_conversation_prompt(question, context, configured) ==
  IF configured
  THEN [raises |-> FALSE,
        value |-> [template |-> "CONVERSATION_PROMPT_V1", question |-> question, context |-> context]]
  ELSE [raises |-> TRUE, value |-> NoPromptConfig]

\* enhance_prompt behind a conditional edge that ends the run on an error
enhance_prompt_ends_on_error ==
  /\ stage = "enhance_prompt"
  /\ IF HasError(state)
     THEN /\ state' = state
          /\ stage' = "invoke_return"
          /\ log' = Append(log, "enhance_prompt")
     ELSE /\ stage' = "generate_response"
          /\ \E configured \in BOOLEAN :
               LET prompt == get_conversation_prompt(state.question, Get(state.context, <<>>), configured)
               IN  IF prompt.raises
                   THEN /\ state' = [state EXCEPT !.error = Set(PromptError(prompt.value))]
                        /\ log' = log \o <<"enhance_prompt", "template_failed">>
                   ELSE /\ state' = [state EXCEPT !.enhanced_prompt = Set(prompt.value)]
                        /\ log' = log \o <<"enhance_prompt", "template">>
  /\ UNCHANGED <<results_with_scores, result, reply>>
  /\ UNCHANGED storeVars
  /\ UNCHANGED reviewVars

\* node enhance_prompt
enhance_prompt ==
  /\ stage = "enhance_prompt"
  /\ stage' = "generate_response"
  /\ IF HasError(state)
     THEN /\ state' = state
          /\ log' = Append(log, "enhance_prompt")
     ELSE \E configured \in BOOLEAN :
            LET prompt == get_conversation_prompt(state.question, Get(state.context, <<>>), configured)
            IN  IF prompt.raises
                THEN /\ state' = [state EXCEPT !.error = Set(PromptError(prompt.value))]
                     /\ log' = log \o <<"enhance_prompt", "template_failed">>
                ELSE /\ state' = [state EXCEPT !.enhanced_prompt = Set(prompt.value)]
                     /\ log' = log \o <<"enhance_prompt", "template">>
  /\ UNCHANGED <<results_with_scores, result, reply>>
  /\ UNCHANGED storeVars
  /\ UNCHANGED reviewVars

\* lines 123-136: text of the model's answer, stripped, or the apology
response_text(out) ==
  LET text == strip(out.text)
  IN  IF text = <<>> THEN Apology ELSE text

\* node generate_response
generate_response ==
  /\ stage = "generate_response"
  /\ stage' = "finalize_output"
  /\ IF HasError(state)
     THEN /\ state' = state
          /\ log' = Append(log, "generate_response")
     ELSE \/ /\ state' = [state EXCEPT !.error = Set(ResponseError(TransientFailure))]
             /\ log' = log \o <<"generate_response", "llm", "llm_failed">>
          \/ \E out \in LLMOutputs :
               /\ state' = IF out.none               \* None.strip() raises
                           THEN [state EXCEPT !.error = Set(ResponseError(NoneHasNoStrip))]
                           ELSE [state EXCEPT !.response = Set(response_text(out))]
               /\ log' = log \o <<"generate_response", "llm", Returned(out)>>
  /\ UNCHANGED <<results_with_scores, result, reply>>
  /\ UNCHANGED storeVars
  /\ UNCHANGED reviewVars

\* finalize_output that leaves the response alone
finalize_output_no_overwrite ==
  /\ stage = "finalize_output"
  /\ stage' = "invoke_return"
  /\ state' = state
  /\ log' = Append(log, "finalize_output")
  /\ UNCHANGED <<results_with_scores, result, reply>>
  /\ UNCHANGED storeVars
  /\ UNCHANGED reviewVars

\* node finalize_output
finalize_output ==
  /\ stage = "finalize_output"
  /\ stage' = "invoke_return"
  /\ state' = IF HasError(state)
              THEN [state EXCEPT !.response = Set(FailureMessage(state.error[1]))]
              ELSE state
  /\ log' = Append(log, "finalize_output")
  /\ UNCHANGED <<results_with_scores, result, reply>>
  /\ UNCHANGED storeVars
  /\ UNCHANGED reviewVars

\* invoke_return that reports context_used without looking at the context
invoke_return_context_always_used ==
  /\ stage = "invoke_return"
  /\ stage' = "respond"
  /\ result' = [returned |-> TRUE, success |-> TRUE,
                message |-> Get(state.response, NoResponseMessage),
                use_rag |-> state.use_rag,
                context_used |-> TRUE,
                documents_found |-> Len(Get(state.relevant_documents, <<>>)),
                error |-> Unset]
  /\ UNCHANGED <<state, results_with_scores, reply, log>>
  /\ UNCHANGED storeVars
  /\ UNCHANGED reviewVars

\* invoke, lines 222-236: the structured response
invoke_return ==
  /\ stage = "invoke_return"
  /\ stage' = "respond"
  /\ result' = [returned |-> TRUE, success |-> TRUE,
                message |-> Get(state.response, NoResponseMessage),
                use_rag |-> state.use_rag,
                context_used |-> Get(state.context, <<>>) # <<>>,
                documents_found |-> Len(Get(state.relevant_documents, <<>>)),
                error |-> Unset]
  /\ UNCHANGED <<state, results_with_scores, reply, log>>
  /\ UNCHANGED storeVars
  /\ UNCHANGED reviewVars

\* create_chat, lines 31-41: ChatResponse(message=result["message"]) validates
\* min_length 1 and max_length; a ValidationError becomes HTTP 500.  An
\* in-process caller just gets the dict.
respond ==
  /\ stage = "respond"
  /\ stage' = "answered"
  /\ reply' = IF reply.via = "direct"
              THEN [reply EXCEPT !.status = "returned", !.message = result.message]
              ELSE IF len(result.message) >= 1 /\ len(result.message) <= max_length
              THEN [reply EXCEPT !.status = "200", !.message = result.message]
              ELSE [reply EXCEPT !.status = "500"]
  /\ UNCHANGED <<state, results_with_scores, result, log>>
  /\ UNCHANGED storeVars
  /\ UNCHANGED reviewVars

\* the answer is out; the next question may come
next_request ==
  /\ stage = "answered"
  /\ stage' = "idle"
  /\ state' = NoState
  /\ results_with_scores' = <<>>
  /\ result' = NoResult
  /\ reply' = NoReply
  /\ log' = <<>>
  /\ UNCHANGED storeVars
  /\ UNCHANGED reviewVars

\* the stores a question can meet: none, up to MaxStored chunks of a.pdf, or
\* one chunk of a.pdf followed by chunks of notes.pdf
AskStores ==
  {NoStore}
    \cup {from_documents(Chunks("a.pdf", n)) : n \in 1..MaxStored}
    \cup {merge_from(from_documents(Chunks("a.pdf", 1)), from_documents(Chunks("notes.pdf", n)))
            : n \in 1..(MaxStored - 1)}

\* the service after start-up on a directory holding one of these stores
InitAsk ==
  /\ vector_store \in AskStores
  /\ disk = IF vector_store.present
            THEN [faiss |-> Written(vector_store.index), pkl |-> Written(vector_store.docs)]
            ELSE [faiss |-> Absent, pkl |-> Absent]
  /\ pc = [p \in Procs |-> "idle"]
  /\ documents = [p \in Procs |-> <<>>]
  /\ source_filename = [p \in Procs |-> "a.pdf"]
  /\ remaining_docs = [p \in Procs |-> <<>>]
  /\ saving = [p \in Procs |-> Current]
  /\ ret = [p \in Procs |-> "none"]
  /\ pre = NoSnapshot
  /\ observed = Unread
  /\ faults = 0
  /\ calls = 0
  /\ state = NoState
  /\ stage = "idle"
  /\ results_with_scores = <<>>
  /\ result = NoResult
  /\ reply = NoReply
  /\ log = <<>>
  /\ review = NoReview
  /\ review_stage = "idle"
  /\ review_log = <<>>

NextAsk ==
  \/ create_chat
  \/ process_question
  \/ build_agent
  \/ parse_question_input
  \/ retrieve_context
  \/ enhance_prompt
  \/ generate_response
  \/ finalize_output
  \/ invoke_return
  \/ respond
  \/ next_request

SpecAsk == InitAsk /\ [][NextAsk]_vars

\* build_agent, lines 183-201: the nodes in the order of the entry point and
\* the edges parse_input -> retrieve_context -> enhance_prompt ->
\* generate_response -> finalize_output -> END
Pipeline ==
  <<"parse_input", "retrieve_context", "enhance_prompt", "generate_response", "finalize_output">>

\* a service started without a store or on a small one
InitAskSmall ==
  /\ InitAsk
  /\ vector_store \in {NoStore} \cup {from_documents(Chunks("a.pdf", n)) : n \in 1..MaxBatch}

\* workflow.ainvoke awaits each node in turn: a node that is due runs, and
\* every call it awaits returns or raises
SpecAskFair ==
  /\ InitAskSmall
  /\ [][NextAsk]_vars
  /\ WF_vars(parse_question_input)
  /\ WF_vars(retrieve_context)
  /\ WF_vars(enhance_prompt)
  /\ WF_vars(generate_response)
  /\ WF_vars(finalize_output)

\* ------------------------------------------------------ code review path
\* POST /analyze: a review request enters invoke
review_code ==
  /\ review_stage = "idle"
  /\ \E input \in ReviewInputs : review' = initial_review_state(input)
  /\ review_stage' = "parse_input"
  /\ review_log' = <<>>
  /\ UNCHANGED storeVars
  /\ UNCHANGED askVars

\* invoke, lines 247-263: the error state returned when the workflow raised;
\* it is built from the state invoke was called with
invoke_except ==
  /\ review' = [initial_review_state(review) EXCEPT
                  !.analysis_complete = Set(TRUE),
                  !.severity_level = Set("error"),
                  !.requires_human_review = Set(TRUE),
                  !.syntax_issues = Set(<<Failed("Analysis failed")>>),
                  !.security_vulnerabilities = Set(<<>>),
                  !.performance_issues = Set(<<>>),
                  !.style_violations = Set(<<>>),
                  !.best_practice_violations = Set(<<>>),
                  !.explanations = Set(<<>>),
                  !.improvement_suggestions = Set(<<>>),
                  !.learning_resources = Set(<<>>)]
  /\ review_stage' = "returned"

\* node parse_input
parse_code_input ==
  /\ review_stage = "parse_input"
  /\ IF \/ review.code = <<>> \/ len(review.code) > max_code_length
        \/ review.language \notin {"python", "javascript"}
        \/ review.file_type \notin {"py", "js"}
     THEN /\ invoke_except
          /\ review_log' = review_log \o <<"parse_input", "raised">>
     ELSE /\ review' = review
          /\ review_stage' = "syntax_analysis"
          /\ review_log' = Append(review_log, "parse_input")
  /\ UNCHANGED storeVars
  /\ UNCHANGED askVars

\* node syntax_analysis: three model calls; any exception replaces both lists
analyze_syntax_style ==
  /\ review_stage = "syntax_analysis"
  /\ \/ \E syntax \in IssueLists, format \in IssueLists, comment \in {Plain(0), Plain(MaxIssues)} :
          review' = [review EXCEPT !.syntax_issues = Set(syntax),
                                   !.style_violations = Set(format \o comment)]
     \/ review' = [review EXCEPT !.syntax_issues = Set(<<Failed("Syntax analysis failed")>>),
                                 !.style_violations = Set(<<Failed("Style analysis failed")>>)]
  /\ review_stage' = "security_scan"
  /\ review_log' = Append(review_log, "syntax_analysis")
  /\ UNCHANGED storeVars
  /\ UNCHANGED askVars

\* node security_scan
security_scan ==
  /\ review_stage = "security_scan"
  /\ \/ \E vulnerabilities \in IssueLists :
          review' = [review EXCEPT !.security_vulnerabilities = Set(vulnerabilities)]
     \/ review' = [review EXCEPT !.security_vulnerabilities = Set(<<Failed("Security scan failed")>>)]
  /\ review_stage' = "performance_check"
  /\ review_log' = Append(review_log, "security_scan")
  /\ UNCHANGED storeVars
  /\ UNCHANGED askVars

\* node performance_check
performance_analysis ==
  /\ review_stage = "performance_check"
  /\ \/ \E issues \in IssueLists :
          review' = [review EXCEPT !.performance_issues = Set(issues)]
     \/ review' = [review EXCEPT !.performance_issues = Set(<<Failed("Performance analysis failed")>>)]
  /\ review_stage' = "best_practices"
  /\ review_log' = Append(review_log, "performance_check")
  /\ UNCHANGED storeVars
  /\ UNCHANGED askVars

\* node best_practices, then the conditional edge; counting the issues is
\* outside the try, so an entry that is not a dict makes the workflow raise
best_practices_check ==
  /\ review_stage = "best_practices"
  /\ \E checked \in {Set(issues) : issues \in IssueLists}
                      \cup {Set(<<Failed("Best practices check failed")>>)} :
       LET st == [review EXCEPT !.best_practice_violations = checked]
       IN  IF \/ get_raises(st.syntax_issues) \/ get_raises(st.security_vulnerabilities)
              \/ get_raises(st.performance_issues) \/ get_raises(st.style_violations)
              \/ get_raises(st.best_practice_violations)
           THEN /\ invoke_except
                /\ review_log' = review_log \o <<"best_practices", "raised">>
           ELSE LET done == [st EXCEPT !.severity_level = Set(severity_of(total_issues(st)))]
                IN  /\ review' = done
                    /\ review_stage' = route_by_severity(done)
                    /\ review_log' = Append(review_log, "best_practices")
  /\ UNCHANGED storeVars
  /\ UNCHANGED askVars

\* node human_escalation
human_escalation ==
  /\ review_stage = "human_escalation"
  /\ review' = [review EXCEPT !.requires_human_review = Set(TRUE)]
  /\ review_stage' = "educational_content"
  /\ review_log' = Append(review_log, "human_escalation")
  /\ UNCHANGED storeVars
  /\ UNCHANGED askVars

\* node detailed_analysis
detailed_analysis ==
  /\ review_stage = "detailed_analysis"
  /\ review' = review
  /\ review_stage' = "educational_content"
  /\ review_log' = Append(review_log, "detailed_analysis")
  /\ UNCHANGED storeVars
  /\ UNCHANGED askVars

\* node educational_content
generate_explanations ==
  /\ review_stage = "educational_content"
  /\ \/ review' = [review EXCEPT !.explanations = Set(<<Issue>>),
                                 !.improvement_suggestions = Set(<<>>),
                                 !.learning_resources = Set(<<>>)]
     \/ review' = [review EXCEPT !.explanations = Set(<<Failed("Connection error.")>>),
                                 !.improvement_suggestions = Set(<<>>),
                                 !.learning_resources = Set(<<>>)]
  /\ review_stage' = "generate_report"
  /\ review_log' = Append(review_log, "educational_content")
  /\ UNCHANGED storeVars
  /\ UNCHANGED askVars

\* node generate_report
generate_final_report ==
  /\ review_stage = "generate_report"
  /\ review' = [review EXCEPT
                  !.requires_human_review =
                     Set(Get(review.severity_level, "none") \in {"high", "critical"}),
                  !.analysis_complete = Set(TRUE)]
  /\ review_stage' = "returned"
  /\ review_log' = Append(review_log, "generate_report")
  /\ UNCHANGED storeVars
  /\ UNCHANGED askVars

\* the result was handed to the router; the next review may come
next_review ==
  /\ review_stage = "returned"
  /\ review' = NoReview
  /\ review_stage' = "idle"
  /\ review_log' = <<>>
  /\ UNCHANGED storeVars
  /\ UNCHANGED askVars

NextReview ==
  \/ review_code
  \/ parse_code_input
  \/ analyze_syntax_style
  \/ security_scan
  \/ performance_analysis
  \/ best_practices_check
  \/ human_escalation
  \/ detailed_analysis
  \/ generate_explanations
  \/ generate_final_report
  \/ next_review

SpecReview == Init /\ [][NextReview]_vars

Next ==
  \/ \E p \in Procs : CallSave(p)
  \/ \E p \in Procs : sd_check(p)
  \/ \E p \in Procs : sd_create(p)
  \/ \E p \in Procs : sd_merge(p)
  \/ \E p \in Procs : sd_save(p)
  \/ \E p \in Procs : sd_save_pkl(p)
  \/ \E p \in Procs : CallDelete(p)
  \/ \E p \in Procs : dd_scan(p)
  \/ \E p \in Procs : dd_rebuild(p)
  \/ \E p \in Procs : dd_save(p)
  \/ \E p \in Procs : dd_save_pkl(p)
  \/ \E p \in Procs : cv_unlink(p)
  \/ \E p \in Procs : cv_clear(p)
  \/ \E p \in Procs : Finish(p)
  \/ ListDocuments
  \/ Restart

Spec == Init /\ [][Next]_vars

\* one request at a time: a call is accepted only while every thread is idle
Idle == \A q \in Procs : pc[q] = "idle"

SerialCallSave(p) == Idle /\ CallSave(p)

SerialCallDelete(p) == Idle /\ CallDelete(p)

NextSeq ==
  \/ \E p \in Procs : SerialCallSave(p)
  \/ \E p \in Procs : sd_check(p)
  \/ \E p \in Procs : sd_create(p)
  \/ \E p \in Procs : sd_merge(p)
  \/ \E p \in Procs : sd_save(p)
  \/ \E p \in Procs : sd_save_pkl(p)
  \/ \E p \in Procs : SerialCallDelete(p)
  \/ \E p \in Procs : dd_scan(p)
  \/ \E p \in Procs : dd_rebuild(p)
  \/ \E p \in Procs : dd_save(p)
  \/ \E p \in Procs : dd_save_pkl(p)
  \/ \E p \in Procs : cv_unlink(p)
  \/ \E p \in Procs : cv_clear(p)
  \/ \E p \in Procs : Finish(p)
  \/ ListDocuments
  \/ Restart

SpecSeq == Init /\ [][NextSeq]_vars

\* ================================================================ claims
Info == get_vector_store_info(vector_store, disk)
PreInfo == get_vector_store_info(pre.store, pre.disk)
Listed(store, f) == \E i \in 1..Len(get_all_documents(store)) : get_all_documents(store)[i].filename = f
NoFiles == [faiss |-> Absent, pkl |-> Absent]

\* storage holds exactly the in-memory index, and nothing when the store is empty
PersistedIsActive ==
  IF vector_store.present
  THEN disk = [faiss |-> Written(vector_store.index), pkl |-> Written(vector_store.docs)]
  ELSE disk = NoFiles

\* C5: whenever insert or delete_by_source returns true, the chunks in
\* persistent storage are exactly the chunks of the in-memory index at the
\* moment of return, and storage holds no index exactly when the store is empty.
C5_PersistedBeforeSuccess ==
  \A p \in Procs : (pc[p] \in Done /\ ret[p] = "true") => PersistedIsActive

\* C5 witness: a delete that rebuilt the index from survivors has returned true
C5_Witness ==
  \E p \in Procs : pc[p] = "dd_done" /\ ret[p] = "true" /\ vector_store.present
                   /\ Len(vector_store.docs) >= 1

\* C7: a delete_by_source(f) that returns true on a store holding n >= 1 chunks
\* of f leaves no entry for f in list_documents() and lowers total_chunks by n.
C7_DeleteRemovesExactlySource ==
  \A p \in Procs :
    LET f == source_filename[p]
        n == Len(OfSource(pre.store.docs, f))
    IN  (pc[p] = "dd_done" /\ ret[p] = "true" /\ n >= 1)
          => /\ ~Listed(vector_store, f)
             /\ Info.total_chunks = PreInfo.total_chunks - n

\* C7 witness: a successful delete on a store that held two sources
C7_Witness ==
  \E p \in Procs : /\ pc[p] = "dd_done" /\ ret[p] = "true"
                   /\ Len(get_all_documents(pre.store)) = 2
                   /\ Len(OfSource(pre.store.docs, source_filename[p])) >= 1
                   /\ Info.total_chunks >= 1

\* C9: delete_by_source(f) returns false when no stored chunk has source f
\* (also on the empty store), and then the in-memory index, the persisted
\* files, list_documents() and stats() are what they were before the call.
C9_DeleteMissIsNoOp ==
  \A p \in Procs :
    (pc[p] = "dd_done" /\ OfSource(pre.store.docs, source_filename[p]) = <<>>)
      => /\ ret[p] = "false"
         /\ vector_store = pre.store
         /\ disk = pre.disk
         /\ get_all_documents(vector_store) = get_all_documents(pre.store)
         /\ Info = PreInfo

\* C9 witness: a delete of an absent source returned on a store holding another
C9_Witness ==
  \E p \in Procs : /\ pc[p] = "dd_done" /\ ret[p] = "false"
                   /\ pre.store.present
                   /\ OfSource(pre.store.docs, source_filename[p]) = <<>>

\* C10: insert([]) returns false and leaves stats(), list_documents() and the
\* persisted index unchanged; it never turns an empty store into an active one.
C10_EmptyInsertIsNoOp ==
  \A p \in Procs :
    (pc[p] = "sd_done" /\ documents[p] = <<>>)
      => /\ ret[p] = "false"
         /\ Info = PreInfo
         /\ get_all_documents(vector_store) = get_all_documents(pre.store)
         /\ disk = pre.disk
         /\ (~pre.store.present => Info.status = "empty")

\* C10 witness: the third insert([]) in a row has returned on the empty store
C10_Witness ==
  \E p \in Procs : /\ pc[p] = "sd_done" /\ documents[p] = <<>>
                   /\ ~pre.store.present /\ calls = 3

\* C1: if a step of delete_by_source's rebuild fails (re-embedding, persisting,
\* or removing the files), the call returns false and the in-memory index and
\* the stored files still hold exactly the pre-call chunks.
C1_FailedDeleteKeepsPreviousIndex ==
  \A p \in Procs :
    (pc[p] = "dd_done" /\ faults > pre.faults)
      => /\ ret[p] = "false"
         /\ vector_store = pre.store
         /\ disk = pre.disk

\* C2: once two concurrent inserts of disjoint non-empty chunk sets of different
\* source files have both returned true, list_documents() holds both sources
\* with (at least) all the chunks each call inserted.
C2_NoLostInsert ==
  \A p, q \in Procs :
    (/\ p # q
     /\ pc[p] = "sd_done" /\ ret[p] = "true"
     /\ pc[q] = "sd_done" /\ ret[q] = "true"
     /\ documents[p][1].source_file # documents[q][1].source_file)
      => LET f == documents[p][1].source_file
         IN  /\ Listed(vector_store, f)
             /\ Len(OfSource(vector_store.docs, f)) >= Len(documents[p])

\* C3: insert and delete_by_source calls are serialized, so when
\* delete_by_source(f) and an insert of chunks of another source g overlap in
\* any way and both have returned true, the store holds every chunk of g and
\* no chunk of f.
C3_MutationsSerialized ==
  \A p, q \in Procs :
    (/\ pc[p] = "dd_done" /\ ret[p] = "true"
     /\ pc[q] = "sd_done" /\ ret[q] = "true"
     /\ documents[q][1].source_file # source_filename[p])
      => /\ OfSource(vector_store.docs, source_filename[p]) = <<>>
         /\ Len(OfSource(vector_store.docs, documents[q][1].source_file)) >= Len(documents[q])

\* C4: the active in-memory index changes only after the new index has been
\* persisted, so what a reader is answered is always the persisted index.
C4_ReadersSeePersistedIndex ==
  observed.read => observed.seen = observed.persisted

\* C6: after any sequence of insert and delete_by_source calls, a fresh manager
\* loading the storage location reports the same list_documents() and the same
\* stats() status, document_count and total_chunks as the running instance.
C6_RestartPreservesStore ==
  (\A p \in Procs : pc[p] = "idle")
    => LET fresh == _load_existing_vector_store(disk)
           after == get_vector_store_info(fresh, disk)
       IN  /\ get_all_documents(fresh) = get_all_documents(vector_store)
           /\ after.status = Info.status
           /\ after.document_count = Info.document_count
           /\ after.total_chunks = Info.total_chunks

\* the store held chunks of exactly one source, the one this delete names
OnlySource(p) ==
  /\ pre.store.present
  /\ Len(pre.store.docs) >= 1
  /\ \A i \in 1..Len(pre.store.docs) : pre.store.docs[i].source_file = source_filename[p]

\* C8 as stated: on a store holding exactly one source f, delete_by_source(f)
\* returns true and leaves status "empty", document_count 0, total_chunks 0
\* and no stored index files.
C8_DeleteLastSourceAlwaysEmpties ==
  \A p \in Procs :
    (pc[p] = "dd_done" /\ OnlySource(p))
      => /\ ret[p] = "true"
         /\ Info.status = "empty" /\ Info.document_count = 0 /\ Info.total_chunks = 0
         /\ disk = NoFiles

\* C8 amended: on a store holding exactly one source f, a delete_by_source(f)
\* that returns true leaves status "empty", document_count 0, total_chunks 0
\* and no stored index files; it returns false only when removing a file
\* raised, and then the in-memory store is still the active pre-call one.
C8_DeleteLastSourceEmptiesOnSuccess ==
  \A p \in Procs :
    (pc[p] = "dd_done" /\ OnlySource(p))
      => /\ PreInfo.status = "active"
         /\ ret[p] = "true"
              => /\ Info.status = "empty" /\ Info.document_count = 0 /\ Info.total_chunks = 0
                 /\ disk = NoFiles
         /\ ret[p] = "false"
              => /\ faults > pre.faults
                 /\ vector_store = pre.store
                 /\ Info.status = "active"

\* C8 witness: the delete of the only source has returned true
C8_Witness ==
  \E p \in Procs : pc[p] = "dd_done" /\ OnlySource(p) /\ ret[p] = "true"

\* C11: in every reachable store state, after any sequence of ingests and
\* deletes (the same filename may be ingested more than once), no two stored
\* chunks share the same (source_file, chunk_id) pair.
C11_ChunkKeysUnique ==
  \A i, j \in 1..Len(vector_store.docs) :
    i # j => <<vector_store.docs[i].source_file, vector_store.docs[i].chunk_id>>
               # <<vector_store.docs[j].source_file, vector_store.docs[j].chunk_id>>

\* characters of the first n stored chunks that belong to source f
RECURSIVE CharsUpTo(_, _, _)
CharsUpTo(docs, f, n) ==
  IF n = 0 THEN 0
  ELSE CharsUpTo(docs, f, n - 1)
         + (IF docs[n].source_file = f THEN Len(docs[n].page_content) ELSE 0)

RECURSIVE SumChunkCount(_)
SumChunkCount(listing) ==
  IF listing = <<>> THEN 0 ELSE Head(listing).chunk_count + SumChunkCount(Tail(listing))

\* C12: at every observation list_documents() has exactly one entry per
\* distinct source_file present, whose chunk_count is the number of chunks of
\* that source and whose total_characters is the sum of their content lengths;
\* the chunk_counts add up to stats().total_chunks and the number of entries
\* is stats().document_count.
C12_ListingMatchesChunks ==
  LET docs == vector_store.docs
      listing == get_all_documents(vector_store)
  IN  /\ observed.read => observed.seen = listing
      /\ {listing[i].filename : i \in 1..Len(listing)}
           = {docs[i].source_file : i \in 1..Len(docs)}
      /\ \A i, j \in 1..Len(listing) : i # j => listing[i].filename # listing[j].filename
      /\ \A i \in 1..Len(listing) :
           LET f == listing[i].filename
           IN  /\ listing[i].chunk_count
                    = Cardinality({c \in 1..Len(docs) : docs[c].source_file = f})
               /\ listing[i].total_characters = CharsUpTo(docs, f, Len(docs))
      /\ SumChunkCount(listing) = Info.total_chunks
      /\ Len(listing) = Info.document_count

\* C12 witness: a reader listed a store holding both sources, b.pdf with two
\* chunks of different lengths
C12_Witness ==
  /\ observed.read
  /\ Len(observed.seen) = 2
  /\ \E i \in 1..2 : /\ observed.seen[i].filename = "b.pdf"
                     /\ observed.seen[i].chunk_count = 2
                     /\ observed.seen[i].total_characters = 3

\* C20: an insert of a non-empty chunk sequence that returns true only adds:
\* on an empty store the index then holds exactly the inserted chunks, on a
\* non-empty store every chunk present before followed by exactly the inserted
\* ones, and total_chunks has grown by the number of chunks inserted.
C20_InsertOnlyAdds ==
  \A p \in Procs :
    (pc[p] = "sd_done" /\ ret[p] = "true" /\ documents[p] # <<>>)
      => /\ ~pre.store.present => vector_store.docs = documents[p]
         /\ pre.store.present => vector_store.docs = pre.store.docs \o documents[p]
         /\ Info.total_chunks = PreInfo.total_chunks + Len(documents[p])

\* C20 witness: two chunks of b.pdf were inserted into a store holding a.pdf
C20_Witness ==
  \E p \in Procs : /\ pc[p] = "sd_done" /\ ret[p] = "true"
                   /\ Len(documents[p]) = 2 /\ documents[p][1].source_file = "b.pdf"
                   /\ pre.store.present /\ Len(pre.store.docs) = 1
                   /\ pre.store.docs[1].source_file = "a.pdf"
                   /\ Info.total_chunks = 3

InLog(e) == \E i \in 1..Len(log) : log[i] = e

\* the search of this question has returned and its result is still at hand
Searched == InLog("search") /\ stage # "retrieve_context"

\* C13: search never raises and never reports an error: on an empty store it
\* returns the empty sequence, and when the embedding provider or the index
\* fails during the search it returns the empty sequence; in both cases the
\* store state is unchanged.
C13_SearchNeverRaises ==
  /\ [](/\ ~InLog("search_raised")
        /\ (Searched /\ ~vector_store.present) => results_with_scores = <<>>
        /\ (Searched /\ InLog("search_failed")) => results_with_scores = <<>>)
  /\ [][stage = "retrieve_context" => (vector_store' = vector_store /\ disk' = disk)]_vars

\* C13 witness: the index failed during the search of a store holding chunks
C13_Witness ==
  /\ stage = "enhance_prompt" /\ InLog("search_failed")
  /\ vector_store.present /\ Len(vector_store.docs) >= 2

\* positions of the search results with a score below the threshold
Below == {j \in 1..Len(results_with_scores) : results_with_scores[j][2] < similarity_threshold}

\* the i-th smallest position of Below
NthBelow(i) == CHOOSE j \in Below : Cardinality({x \in Below : x < j}) = i - 1

ScoresOf(results) == [i \in 1..Len(results) |-> results[i][2]]

\* C14: retrieve keeps exactly the search results whose score is strictly
\* below the threshold 2.0 (a score of exactly 2.0 is excluded), in the order
\* the search returned them, and never more than k = 6 chunks; for the scores
\* [0.5, 1.9, 2.0, 2.1] exactly the first two results survive.
C14_RetrieveKeepsStrictlyBelowThreshold ==
  Searched =>
    LET kept == Get(state.relevant_documents, <<>>)
    IN  /\ Len(kept) = Cardinality(Below)
        /\ \A i \in 1..Len(kept) : kept[i] = results_with_scores[NthBelow(i)][1]
        /\ Len(kept) <= k
        /\ ScoresOf(results_with_scores) = <<5, 19, 20, 21>>
             => kept = <<results_with_scores[1][1], results_with_scores[2][1]>>

\* C14 witness: the search answered with the scores 0.5, 1.9, 2.0, 2.1
C14_Witness ==
  /\ stage = "enhance_prompt" /\ Searched
  /\ ScoresOf(results_with_scores) = <<5, 19, 20, 21>>
  /\ Len(Get(state.relevant_documents, <<>>)) = 2

\* the text between the first and the last non-blank character of a content
Trimmed(c) ==
  LET solid == {i \in 1..Len(c) : c[i] # " "}
  IN  IF solid = {} THEN <<>>
      ELSE SubSeq(c, CHOOSE i \in solid : \A j \in solid : i <= j,
                     CHOOSE i \in solid : \A j \in solid : i >= j)

\* "[Document {i} - {source_file}]\n{content}" for the first n chunks, joined
\* by one blank line, the content taken as it is or trimmed
RECURSIVE Formatted(_, _, _)
Formatted(docs, n, trimmed) ==
  IF n = 0 THEN <<>>
  ELSE (IF n = 1 THEN <<>> ELSE Formatted(docs, n - 1, trimmed) \o <<"\n", "\n">>)
         \o <<"[Document ", Digits[n], " - ", docs[n].source_file, "]", "\n">>
         \o (IF trimmed THEN Trimmed(docs[n].page_content) ELSE docs[n].page_content)

\* the chunks retrieve_context handed to the context assembly of this question
Assembled == IsSet(state.relevant_documents) /\ IsSet(state.context)

\* C15 as stated: assemble formats the chunks as
\* "[Document {i} - {source_file}]\n{content}", i counting from 1 in retrieval
\* order, joined by one blank line, the content unmodified; assemble([]) is "".
C15_AssembleKeepsContent ==
  /\ _create_context_from_documents(<<>>) = <<>>
  /\ Assembled =>
       state.context[1]
         = Formatted(state.relevant_documents[1], Len(state.relevant_documents[1]), FALSE)

\* C15 amended: the same format, with each chunk's content stripped of leading
\* and trailing whitespace (so unmodified only when it has none);
\* assemble([]) is "" and assemble([chunk]) is "[Document 1 - {source}]\n"
\* followed by the stripped content.
C15_AssembleStripsContent ==
  /\ _create_context_from_documents(<<>>) = <<>>
  /\ Assembled =>
       LET docs == state.relevant_documents[1]
       IN  /\ state.context[1] = Formatted(docs, Len(docs), TRUE)
           /\ Len(docs) = 1
                => state.context[1]
                     = <<"[Document ", "1", " - ", docs[1].source_file, "]", "\n">>
                         \o Trimmed(docs[1].page_content)

\* C15 witness: a single chunk with whitespace at its ends was assembled
C15_Witness ==
  /\ Assembled
  /\ Len(state.relevant_documents[1]) = 1
  /\ state.relevant_documents[1][1].page_content = <<"x", " ">>
  /\ state.context[1] = <<"[Document ", "1", " - ", "notes.pdf", "]", "\n", "x">>

\* parse_input let the question through
Accepted(question) ==
  len(strip(question)) >= 1 /\ len(question) <= max_question_length

\* C16: the conversation path never lets an internal exception reach the
\* caller as a fault: for every accepted question, whatever fails (search,
\* prompt template, language model) and whatever the language model answers,
\* of any length, the caller gets a result with a non-empty message.
C16_AskAlwaysAnswers ==
  (stage = "answered" /\ Accepted(state.question))
    => /\ reply.status \in {"200", "returned"}
       /\ len(reply.message) >= 1

\* retrieval found nothing to ground the answer on: the store is empty, the
\* search failed, or no result is below the threshold
Degraded ==
  /\ state.use_rag /\ Searched
  /\ \/ ~vector_store.present
     \/ InLog("search_failed")
     \/ \A i \in 1..Len(results_with_scores) : results_with_scores[i][2] >= similarity_threshold

\* C17 as stated: with use_rag true and the store empty, the search raising or
\* no result below the threshold, retrieve_context leaves error unset and
\* sets context to "", the language model is still invoked, and the result
\* reports context_used = false.
C17_DegradedRetrievalStillInvokesModel ==
  /\ (stage = "enhance_prompt" /\ Degraded)
       => ~IsSet(state.error) /\ state.context = Set(<<>>)
  /\ (stage = "respond" /\ result.success /\ Degraded)
       => InLog("llm") /\ ~result.context_used

\* C17 amended: in those cases retrieve_context leaves error unset and sets
\* context to "", enhance_prompt applies the template, the language model is
\* invoked unless the template itself failed, and the result reports
\* context_used = false.
C17_DegradedRetrievalIsNoError ==
  /\ (stage = "enhance_prompt" /\ Degraded)
       => ~IsSet(state.error) /\ state.context = Set(<<>>)
  /\ (stage = "respond" /\ result.success /\ Degraded)
       => /\ InLog("template") \/ InLog("template_failed")
          /\ InLog("template") => InLog("llm")
          /\ InLog("llm") <=> ~InLog("template_failed")
          /\ ~result.context_used

\* C17 witness: every result was at or above the threshold, the model answered
C17_Witness ==
  /\ stage = "respond" /\ result.success /\ Degraded
  /\ vector_store.present /\ ~InLog("search_failed")
  /\ Len(results_with_scores) >= 2
  /\ InLog("llm") /\ ~InLog("llm_failed") /\ ~result.context_used

\* C18: ingestion and deletion are idempotent: ingesting the same document
\* under the same filename a second time leaves list_documents() and stats()
\* as they were after the first successful ingest, and a second
\* delete_by_source(f) leaves the store as it was after the first.
C18_IngestAndDeleteIdempotent ==
  \A p \in Procs :
    /\ (/\ pc[p] = "sd_done" /\ ret[p] = "true" /\ documents[p] # <<>>
        /\ OfSource(pre.store.docs, documents[p][1].source_file) = documents[p])
         => /\ get_all_documents(vector_store) = get_all_documents(pre.store)
            /\ Info.document_count = PreInfo.document_count
            /\ Info.total_chunks = PreInfo.total_chunks
    /\ (pc[p] = "dd_done" /\ OfSource(pre.store.docs, source_filename[p]) = <<>>)
         => vector_store = pre.store /\ disk = pre.disk

\* an index file is there but FAISS.load_local cannot read the pair
Unloadable(d) ==
  d.faiss.state # "absent" /\ (d.faiss.state = "corrupt" \/ d.pkl.state # "ok")

AllBlank(question) == \A i \in 1..Len(question) : question[i].blank

\* C21: parse_input never throws: for an empty question, a whitespace-only
\* question or a question longer than 10,000 characters it sets the error
\* field and returns the state; for every other question it leaves error unset.
C21_ParseInputSetsErrorOnly ==
  /\ stage = "retrieve_context"
       => /\ log = <<"parse_input">>
          /\ IsSet(state.error)
               <=> (AllBlank(state.question) \/ len(state.question) > max_question_length)
          /\ state = [initial_state(state.question, state.use_rag) EXCEPT !.error = state.error]
  /\ (result.returned /\ ~result.success) => log = <<>>

\* C21 witness: a question of 10,001 characters was rejected
C21_Witness ==
  /\ stage = "retrieve_context"
  /\ len(state.question) = max_question_length + 1
  /\ state.error = Set(LongQuestionError)

\* parse_input rejected the question of the request under way
Rejected == InLog("parse_input") /\ ~Accepted(state.question)

\* C22: once error is set, retrieve_context, enhance_prompt and
\* generate_response each return the state unchanged; so for a question
\* rejected by parse_input the vector store is never searched, the prompt
\* template never applied and the language model never invoked.
C22_ErrorShortCircuits ==
  /\ [](Rejected => /\ ~InLog("search")
                    /\ ~InLog("template") /\ ~InLog("template_failed")
                    /\ ~InLog("llm"))
  /\ [][(IsSet(state.error)
          /\ stage \in {"retrieve_context", "enhance_prompt", "generate_response"})
         => state' = state]_vars

\* C22 witness: a blank question went past generate_response untouched
C22_Witness ==
  /\ stage = "finalize_output" /\ Rejected
  /\ state = [initial_state(Blank(3), TRUE) EXCEPT !.error = Set(EmptyQuestionError)]

\* the language model answered nothing: "", whitespace only, or None (as the
\* result itself or as its content)
ModelAnsweredNothing ==
  \/ InLog("llm_returned_empty") \/ InLog("llm_returned_blank")
  \/ InLog("llm_returned_none") \/ InLog("llm_content_none")

\* C23: whenever the language model returns an empty string, a
\* whitespace-only string or None (directly or as the content of its result),
\* generate_response sets the response to the fixed apology text; the
\* response is never blank.
C23_EmptyOutputBecomesApology ==
  (stage = "finalize_output" /\ ModelAnsweredNothing)
    => /\ state.response = Set(Apology)
       /\ ~IsSet(state.error)

\* the fixed failure text, followed by the error detail
FailureText(detail) ==
  <<[s |-> "I'm sorry, I'm having trouble processing your question right now. Please try again later. Error: ",
     n |-> 97, blank |-> FALSE]>> \o detail

\* C24: finalize_output overwrites response with the fixed failure message
\* embedding the error detail exactly when error is set (by parse_input,
\* enhance_prompt or a raising language-model call) and leaves response
\* untouched otherwise; afterwards response is always present and non-empty.
C24_FinalizeOverwritesOnError ==
  /\ [](InLog("finalize_output") => IsSet(state.response) /\ len(state.response[1]) >= 1)
  /\ [](stage = "finalize_output"
          => (IsSet(state.error)
                <=> (Rejected \/ InLog("template_failed") \/ InLog("llm_failed")
                       \/ InLog("llm_content_none"))))
  /\ [][stage = "finalize_output"
          => /\ state' = [state EXCEPT !.response = state'.response]
             /\ IF IsSet(state.error)
                THEN state'.response = Set(FailureText(state.error[1]))
                ELSE state'.response = state.response]_vars

\* C24 witness: the model call raised and the answer is the failure message
C24_Witness ==
  /\ stage = "invoke_return" /\ InLog("llm_failed")
  /\ state.response = Set(FailureText(state.error[1]))
  /\ len(state.response[1]) = 141

\* the nodes that have run for the request so far, in the order they ran
Ran == SelectSeq(log, LAMBDA e : \E i \in 1..Len(Pipeline) : Pipeline[i] = e)

\* how many nodes have run when the request is at stage s
Position(s) ==
  IF \E i \in 1..Len(Pipeline) : Pipeline[i] = s
  THEN (CHOOSE i \in 1..Len(Pipeline) : Pipeline[i] = s) - 1
  ELSE Len(Pipeline)

\* the workflow of the request was started
Started == stage \in {Pipeline[i] : i \in 1..Len(Pipeline)} \/ Ran # <<>>

\* C25: every request runs parse_input, retrieve_context, enhance_prompt,
\* generate_response, finalize_output exactly once each in that order, with
\* no branch and no loop, and eventually completes at finalize_output
\* whatever errors earlier stages set.
C25_FiveStagesOnceInOrder ==
  /\ [](Started => Ran = SubSeq(Pipeline, 1, Position(stage)))
  /\ [][\A i \in 1..Len(Pipeline) :
          stage = Pipeline[i]
            => /\ stage' = (IF i < Len(Pipeline) THEN Pipeline[i + 1] ELSE "invoke_return")
               /\ Ran' = Append(Ran, Pipeline[i])]_vars
  /\ (stage = "parse_input" ~> (stage = "invoke_return" /\ Ran = Pipeline))

\* C25 witness: a rejected question went through all five nodes
C25_Witness ==
  /\ stage = "invoke_return" /\ Rejected
  /\ Ran = Pipeline /\ Len(log) = 5

\* C26: the chunk at zero-based position i of the split sequence of an
\* ingested document gets chunk_id "{filename}_{i}", also when chunks of the
\* document have identical content and identical incoming metadata; the ids
\* assigned within one ingest are pairwise distinct.
C26_ChunkIdIsPosition ==
  \A p \in Procs :
    LET chunks == documents[p]
    IN  /\ \A i \in 1..Len(chunks) :
             /\ chunks[i].source_file \in Files
             /\ chunks[i].chunk_id = <<chunks[i].source_file, i - 1>>
             /\ chunks[i].page_content = ContentAt(chunks[i].source_file, i - 1)
        /\ \A i, j \in 1..Len(chunks) : i # j => chunks[i].chunk_id # chunks[j].chunk_id

\* C26 witness: an ingest of two chunks with the same text is being saved
C26_Witness ==
  \E p \in Procs :
    /\ pc[p] \in {"sd_create", "sd_merge"}
    /\ Len(documents[p]) = 2
    /\ documents[p][1].page_content = documents[p][2].page_content
    /\ documents[p][2].chunk_id = <<"a.pdf", 1>>

\* C27: whenever insert returns false the store is unchanged: the in-memory
\* index, list_documents() and stats() are the same as before the call, also
\* when persisting fails after the new chunks were embedded.
C27_FailedInsertLeavesStoreUnchanged ==
  \A p \in Procs :
    (pc[p] = "sd_done" /\ ret[p] = "false")
      => /\ vector_store = pre.store
         /\ get_all_documents(vector_store) = get_all_documents(pre.store)
         /\ Info = PreInfo

\* the chunks of source g a search on the store can return
Searchable(store, g) ==
  {h[i][1] : h \in Hits(store, Len(store.docs)), i \in 1..Len(store.docs)}
    \cap {d \in {store.docs[i] : i \in 1..Len(store.docs)} : d.source_file = g}

\* the list_documents() entry of source g, or <<>> when g is not listed
Entry(store, g) ==
  SelectSeq(get_all_documents(store), LAMBDA e : e.filename = g)

\* C28: delete_by_source(f) leaves every other source g untouched: the
\* chunk_count and total_characters list_documents() reports for g and the set
\* of g's chunks a search returns are the same before and after the call.
C28_DeleteLeavesOtherSources ==
  \A p \in Procs : \A g \in Files :
    (pc[p] = "dd_done" /\ g # source_filename[p])
      => /\ Entry(vector_store, g) = Entry(pre.store, g)
         /\ Searchable(vector_store, g) = Searchable(pre.store, g)

\* C28 witness: a delete that returned true removed one source next to another
C28_Witness ==
  \E p \in Procs : \E g \in Files :
    /\ pc[p] = "dd_done" /\ ret[p] = "true" /\ g # source_filename[p]
    /\ Len(OfSource(pre.store.docs, source_filename[p])) >= 1
    /\ Len(Entry(vector_store, g)) = 1
    /\ Searchable(vector_store, g) # {}

\* C29: in every state reachable by insert, delete_by_source and restart,
\* stats() reports "active" iff the store holds at least one chunk, never
\* "active" with total_chunks = 0, and whenever no mutation is in progress an
\* active status comes with index_exists = true.
C29_ActiveMeansStoredAndPersisted ==
  /\ Info.status = "active" <=> Len(vector_store.docs) >= 1
  /\ ~(Info.status = "active" /\ Info.total_chunks = 0)
  /\ (Idle /\ Info.status = "active") => Info.index_exists

\* the workflow of the review raised and invoke answered with the error state
ReviewRaised == \E i \in 1..Len(review_log) : review_log[i] = "raised"

\* the issue lists of the review, in one sequence
AllEntries ==
  Get(review.syntax_issues, <<>>) \o Get(review.security_vulnerabilities, <<>>)
    \o Get(review.performance_issues, <<>>) \o Get(review.style_violations, <<>>)
    \o Get(review.best_practice_violations, <<>>)

\* the severity the thresholds give for n counted issues
Graded(n) ==
  IF n >= 10 THEN "critical" ELSE IF n >= 5 THEN "high" ELSE IF n >= 2 THEN "medium" ELSE "low"

\* the run ended complete, flagged for human review exactly on high, critical
\* or error, and graded by n counted issues unless the workflow raised
EndsGraded(n) ==
  /\ review.analysis_complete = Set(TRUE)
  /\ IsSet(review.severity_level) /\ IsSet(review.requires_human_review)
  /\ review.requires_human_review[1]
       <=> review.severity_level[1] \in {"high", "critical", "error"}
  /\ review.severity_level[1] = (IF ReviewRaised THEN "error" ELSE Graded(n))

\* C30 as stated: every code-review run ends with analysis_complete = true and
\* requires_human_review true exactly when severity_level is high, critical or
\* error; severity is critical for 10 or more counted issues, high for 5 to 9,
\* medium for 2 to 4, low otherwise, where entries carrying an "error" key are
\* not counted, and a workflow exception yields severity "error".
C30_SeverityCountsEntriesWithoutErrorKey ==
  review_stage = "returned"
    => EndsGraded(Len(SelectSeq(AllEntries, LAMBDA x : ~x.has_error)))

\* C30 amended: the same, where the entries not counted are those whose
\* "error" value is non-empty; an entry with an empty "error" value is counted.
C30_SeverityCountsEntriesWithoutErrorText ==
  review_stage = "returned"
    => EndsGraded(Len(SelectSeq(AllEntries, LAMBDA x : ~(x.has_error /\ x.error # ""))))

\* C30 witness: a run with exactly ten counted issues next to an entry with an
\* error text ended critical and flagged for human review
C30_Witness ==
  /\ review_stage = "returned" /\ ~ReviewRaised
  /\ Len(SelectSeq(AllEntries, LAMBDA x : ~x.has_error)) = 10
  /\ \E i \in 1..Len(AllEntries) : AllEntries[i].has_error /\ AllEntries[i].error # ""
  /\ review.severity_level = Set("critical")
  /\ review.requires_human_review = Set(TRUE)
  /\ review.analysis_complete = Set(TRUE)

====
